---- MODULE Spec2Model ----
(***************************************************************************)
(* A model of beatblox_midi: the duration arithmetic of                    *)
(* src/parsing/duration.rs and the track pipeline of src/parsing/mod.rs    *)
(* (get_raw_note_data -> quantize -> get_notes).                           *)
(*                                                                         *)
(* Beat lengths are f32 values in the source.  duration.rs compares a      *)
(* length with the canonical table, which holds multiples of 1/32 beat,    *)
(* and subtracts table values from it, so a length is modelled by the      *)
(* integer number of 1/96 beats it holds: 1.0 is 96, 0.125 is 12,          *)
(* 0.21875 is 21.  The divisions of a beat, the slot of an onset and the   *)
(* beat length of a run of slots are computed in f32 as the source         *)
(* computes them, rounding included (f32_div, f32_mul); f32_units turns    *)
(* the beat length into 1/96 beats, keeping a length that is no multiple   *)
(* of 1/32 beat strictly between the two multiples around it.              *)
(***************************************************************************)
EXTENDS Integers, Sequences, FiniteSets

VARIABLES
    dcall,      \* duration.rs: the pending call (function name and arguments)
    dret,       \* duration.rs: the value the call returned
    dpc,        \* duration.rs: "idle" | "args" | "returned"
    tcall,      \* parse_note_data: its arguments
    remaining_beats,    \* get_tied_note: the length still to cover
    nested,     \* get_tied_note: the values nested_beat_value has taken
    tied,       \* get_tied_note: the leaves pushed so far
    tret,       \* parse_note_data: the NoteWrapper returned
    tpc,        \* parse_note_data: "idle" | "args" | "tied" | "returned"
    midi,       \* the Midi header fields and the parse options of one track
    track,      \* the events of the track get_raw_note_data has consumed
    cur_time,   \* get_raw_note_data: the (scaled) tick of the last event
    cur_velocity,       \* get_raw_note_data: the velocity of the last note-on
    note_on_time,       \* get_raw_note_data: the tick of the last note-on
    note_off_time,      \* get_raw_note_data: the tick of the last note-off
    data,       \* get_raw_note_data: the RawNoteData pushed so far
    quantized_note_data,        \* get_notes: the beats quantize returned
    possible_triplets,  \* get_notes: the beats get_triplets returned
    notes,      \* get_notes: the NoteWrappers returned
    pc,         \* get_notes: "idle" | "raw" | "quantized" | "done" | "panic"
    smf,        \* parse_with_precision: the file as midly::Smf::parse returned it
    parse_midi, \* parse_with_precision: its local midi, the Midi under construction
    parse_ret,  \* parse_with_precision: the Midi returned
    parse_pc    \* parse_with_precision: "idle" | "read" | "new" | "returned" | "panic"

dvars == <<dcall, dret, dpc>>
tvars == <<tcall, remaining_beats, nested, tied, tret, tpc>>
rvars == <<track, cur_time, cur_velocity, note_on_time, note_off_time, data>>
pvars == <<midi, rvars, quantized_note_data, possible_triplets, notes, pc>>
mvars == <<smf, parse_midi, parse_ret, parse_pc>>
vars == <<dvars, tvars, pvars, mvars>>

(***************************************************************************)
(* Bounds of the model.                                                    *)
(***************************************************************************)
MaxBeatType == 4
MaxExtraBeats == 30
MaxBeatLength == 400
MaxEvents == 4
MaxDelta == 2
MaxExponent == 28
MaxLeaves == 6

\* the events of track 0 of a file
MaxTrackZeroEvents == 3

\* the latest tick at which the note of a one-note track starts
MaxOnsetTick == 11

BeatTypes == 0..MaxBeatType

(***************************************************************************)
(* duration.rs                                                             *)
(***************************************************************************)
\* 1.0 beat, in 1/96 beats
BeatUnit == 96

\* POSSIBLE_NOTE_LENGTHS: 0.125, 0.1875, 0.21875, 0.25, ... 7.0
POSSIBLE_NOTE_LENGTHS ==
    <<12, 18, 21, 24, 36, 42, 48, 72, 84, 96, 144, 168, 192, 288, 336, 384, 576, 672>>

NoteDuration ==
    {"WHOLE", "HALF", "QUARTER", "EIGHTH", "SIXTEENTH", "THIRTYSECOND", "NaN"}

NoteDurationModifier == {"None", "Dotted", "DoubleDotted"}

DurationType == [duration : NoteDuration, modifier : NoteDurationModifier]

DEFAULT_DURATION_PRECISION == [duration |-> "THIRTYSECOND", modifier |-> "None"]

shift_up(d) ==
    CASE d = "WHOLE" -> "NaN"
      [] d = "HALF" -> "WHOLE"
      [] d = "QUARTER" -> "HALF"
      [] d = "EIGHTH" -> "QUARTER"
      [] d = "SIXTEENTH" -> "EIGHTH"
      [] d = "THIRTYSECOND" -> "SIXTEENTH"
      [] OTHER -> "NaN"

shift_down(d) ==
    CASE d = "WHOLE" -> "HALF"
      [] d = "HALF" -> "QUARTER"
      [] d = "QUARTER" -> "EIGHTH"
      [] d = "EIGHTH" -> "SIXTEENTH"
      [] d = "SIXTEENTH" -> "THIRTYSECOND"
      [] d = "THIRTYSECOND" -> "NaN"
      [] OTHER -> "NaN"

\* for _ in lo..hi { temp = temp.shift_up() }
RECURSIVE shift_up_loop(_, _, _)
shift_up_loop(temp, lo, hi) ==
    IF lo >= hi THEN temp ELSE shift_up_loop(shift_up(temp), lo + 1, hi)

\* for _ in lo..hi { temp = temp.shift_down() }
RECURSIVE shift_down_loop(_, _, _)
shift_down_loop(temp, lo, hi) ==
    IF lo >= hi THEN temp ELSE shift_down_loop(shift_down(temp), lo + 1, hi)

\* a shift whose loops stop one step early (for _ in 3..s, for _ in s..1)
shift_one_step_short(d, s) ==
    IF s > 2 THEN shift_down_loop(d, 3, s)
    ELSE IF s < 2 THEN shift_up_loop(d, s, 1)
    ELSE d

shift(d, s) ==
    IF s > 2 THEN shift_down_loop(d, 2, s)
    ELSE IF s < 2 THEN shift_up_loop(d, s, 2)
    ELSE d

reverse_shift(d, s) ==
    IF s > 2 THEN shift_up_loop(d, 2, s)
    ELSE IF s < 2 THEN shift_down_loop(d, s, 2)
    ELSE d

beat_type_map(beats, beat_type) ==
    CASE beats = 672 -> [duration |-> shift("WHOLE", beat_type), modifier |-> "DoubleDotted"]
      [] beats = 576 -> [duration |-> shift("WHOLE", beat_type), modifier |-> "Dotted"]
      [] beats = 384 -> [duration |-> shift("WHOLE", beat_type), modifier |-> "None"]
      [] beats = 336 -> [duration |-> shift("HALF", beat_type), modifier |-> "DoubleDotted"]
      [] beats = 288 -> [duration |-> shift("HALF", beat_type), modifier |-> "Dotted"]
      [] beats = 192 -> [duration |-> shift("HALF", beat_type), modifier |-> "None"]
      [] beats = 168 -> [duration |-> shift("QUARTER", beat_type), modifier |-> "DoubleDotted"]
      [] beats = 144 -> [duration |-> shift("QUARTER", beat_type), modifier |-> "Dotted"]
      [] beats = 96 -> [duration |-> shift("QUARTER", beat_type), modifier |-> "None"]
      [] beats = 84 -> [duration |-> shift("EIGHTH", beat_type), modifier |-> "DoubleDotted"]
      [] beats = 72 -> [duration |-> shift("EIGHTH", beat_type), modifier |-> "Dotted"]
      [] beats = 48 -> [duration |-> shift("EIGHTH", beat_type), modifier |-> "None"]
      [] beats = 42 -> [duration |-> shift("SIXTEENTH", beat_type), modifier |-> "DoubleDotted"]
      [] beats = 36 -> [duration |-> shift("SIXTEENTH", beat_type), modifier |-> "Dotted"]
      [] beats = 24 -> [duration |-> shift("SIXTEENTH", beat_type), modifier |-> "None"]
      [] beats = 21 -> [duration |-> shift("THIRTYSECOND", beat_type), modifier |-> "DoubleDotted"]
      [] beats = 18 -> [duration |-> shift("THIRTYSECOND", beat_type), modifier |-> "Dotted"]
      [] beats = 12 -> [duration |-> shift("THIRTYSECOND", beat_type), modifier |-> "None"]
      [] OTHER -> [duration |-> "NaN", modifier |-> "None"]

\* mod_factor, in quarters: 1.75, 1.5, 1.0
mod_factor(modifier) ==
    CASE modifier = "DoubleDotted" -> 7
      [] modifier = "Dotted" -> 6
      [] OTHER -> 4

get_beat_count(self, beat_type) ==
    LET duration == reverse_shift(self.duration, beat_type)
        f == mod_factor(self.modifier)
    IN  CASE duration = "WHOLE" -> (384 * f) \div 4
          [] duration = "HALF" -> (192 * f) \div 4
          [] duration = "QUARTER" -> (96 * f) \div 4
          [] duration = "EIGHTH" -> (48 * f) \div 4
          [] duration = "SIXTEENTH" -> (24 * f) \div 4
          [] duration = "THIRTYSECOND" -> (12 * f) \div 4
          [] OTHER -> 0

\* beats % 0.0 is the f32 NaN, which matches no arm of beat_type_map
quantize_duration(self, beat_type, precision_beats) ==
    LET beats == get_beat_count(self, beat_type)
    IN  IF beats < precision_beats THEN beat_type_map(precision_beats, beat_type)
        ELSE IF precision_beats = 0 THEN [duration |-> "NaN", modifier |-> "None"]
        ELSE beat_type_map(beats - (beats % precision_beats), beat_type)

(***************************************************************************)
(* The values of the parts of the state a specification does not use.      *)
(***************************************************************************)
NoCall == [fn |-> "none", beats |-> 0, beat_type |-> 0,
           self |-> [duration |-> "NaN", modifier |-> "None"], precision_beats |-> 0]

NoRet == [duration |-> "none", modifier |-> "none", beats |-> -1]

IdleDur ==
    /\ dcall = NoCall
    /\ dret = NoRet
    /\ dpc = "idle"

NoNote == [kind |-> "none"]

IdleTrack ==
    /\ midi = [ticks_per_beat |-> 0, beat_type |-> 0,
               precision |-> [duration |-> "NaN", modifier |-> "None"], triplet |-> FALSE]
    /\ track = <<>>
    /\ cur_time = 0
    /\ cur_velocity = 0
    /\ note_on_time = 0
    /\ note_off_time = 0
    /\ data = <<>>
    /\ quantized_note_data = <<>>
    /\ possible_triplets = <<>>
    /\ notes = <<>>
    /\ pc = "idle"

NoMidi == [bmp |-> 0, time_signatures |-> <<>>, ticks_per_beat |-> 0, tracks |-> <<>>]

IdleMidi ==
    /\ smf = [timing |-> "none", ticks |-> 0, tracks |-> <<>>]
    /\ parse_midi = NoMidi
    /\ parse_ret = NoMidi
    /\ parse_pc = "idle"

IdleTied ==
    /\ tcall = [value |-> 0, velocity |-> 0, beat_length |-> 0, beat_type |-> 0]
    /\ remaining_beats = 0
    /\ nested = <<>>
    /\ tied = <<>>
    /\ tret = NoNote
    /\ tpc = "idle"

(***************************************************************************)
(* Calls of the duration functions: the arguments are drawn, then the      *)
(* function is applied.                                                    *)
(***************************************************************************)
RECURSIVE SeqToSet(_)
SeqToSet(s) == IF s = <<>> THEN {} ELSE {Head(s)} \cup SeqToSet(Tail(s))

CanonicalBeats == SeqToSet(POSSIBLE_NOTE_LENGTHS)

\* the beat lengths handed to beat_type_map: the table and lengths off it
BeatInputs == CanonicalBeats \cup (0..MaxExtraBeats)

DurationCalls ==
    [fn : {"beat_type_map"}, beats : BeatInputs, beat_type : BeatTypes,
     self : {NoCall.self}, precision_beats : {0}]
    \cup
    [fn : {"get_beat_count"}, beats : {0}, beat_type : BeatTypes,
     self : DurationType, precision_beats : {0}]
    \cup
    [fn : {"quantize"}, beats : {0}, beat_type : BeatTypes,
     self : DurationType, precision_beats : CanonicalBeats]

InitDur ==
    /\ dcall \in DurationCalls
    /\ dret = NoRet
    /\ dpc = "args"
    /\ IdleTied
    /\ IdleTrack
    /\ IdleMidi

CallBeatTypeMap ==
    /\ dpc = "args"
    /\ dcall.fn = "beat_type_map"
    /\ LET r == beat_type_map(dcall.beats, dcall.beat_type)
       IN  dret' = [duration |-> r.duration, modifier |-> r.modifier, beats |-> -1]
    /\ dpc' = "returned"
    /\ UNCHANGED <<dcall, tvars, pvars, mvars>>

CallGetBeatCount ==
    /\ dpc = "args"
    /\ dcall.fn = "get_beat_count"
    /\ dret' = [duration |-> "none", modifier |-> "none",
                beats |-> get_beat_count(dcall.self, dcall.beat_type)]
    /\ dpc' = "returned"
    /\ UNCHANGED <<dcall, tvars, pvars, mvars>>

CallQuantize ==
    /\ dpc = "args"
    /\ dcall.fn = "quantize"
    /\ LET r == quantize_duration(dcall.self, dcall.beat_type, dcall.precision_beats)
       IN  dret' = [duration |-> r.duration, modifier |-> r.modifier, beats |-> -1]
    /\ dpc' = "returned"
    /\ UNCHANGED <<dcall, tvars, pvars, mvars>>

NextDur == CallBeatTypeMap \/ CallGetBeatCount \/ CallQuantize

SpecDur == InitDur /\ [][NextDur]_vars

(***************************************************************************)
(* symbols.rs and the note builders of parsing/mod.rs                      *)
(***************************************************************************)
\* the pitch that marks a rest
REST == 255

build_note_wrapper(value, duration, velocity) ==
    [kind |-> IF value = REST THEN "Rest" ELSE "PlainNote",
     value |-> value, duration |-> duration, velocity |-> velocity]

ModifiedNote(modifier, children) == [kind |-> modifier, notes |-> children]

\* for i in 1..len { if POSSIBLE_NOTE_LENGTHS[i] > beats { return [i - 1] } }
\* (the sequence is indexed from 1 here, so i runs from 2)
RECURSIVE nested_beat_loop(_, _)
nested_beat_loop(beats, i) ==
    IF i > Len(POSSIBLE_NOTE_LENGTHS) THEN POSSIBLE_NOTE_LENGTHS[Len(POSSIBLE_NOTE_LENGTHS)]
    ELSE IF POSSIBLE_NOTE_LENGTHS[i] > beats THEN POSSIBLE_NOTE_LENGTHS[i - 1]
    ELSE nested_beat_loop(beats, i + 1)

get_nested_beat_value(beats) == nested_beat_loop(beats, 2)

\* one pass of the body of get_tied_note's while loop
tied_iteration(st, value, velocity, beat_type) ==
    LET nested_beat_value == get_nested_beat_value(st.remaining_beats)
        new_duration == beat_type_map(nested_beat_value, beat_type)
    IN  [remaining_beats |-> st.remaining_beats - nested_beat_value,
         nested |-> Append(st.nested, nested_beat_value),
         notes |-> Append(st.notes, build_note_wrapper(value, new_duration, velocity))]

RECURSIVE tied_loop(_, _, _, _)
tied_loop(st, value, velocity, beat_type) ==
    IF st.remaining_beats > 0
    THEN tied_loop(tied_iteration(st, value, velocity, beat_type), value, velocity, beat_type)
    ELSE st

get_tied_note(value, duration, velocity, beat_type) ==
    ModifiedNote("TiedNote",
        tied_loop([remaining_beats |-> duration, nested |-> <<>>, notes |-> <<>>],
                  value, velocity, beat_type).notes)

parse_note_data(value, velocity, beat_length, beat_type) ==
    LET duration == beat_type_map(beat_length, beat_type)
    IN  IF duration.duration = "NaN"
        THEN get_tied_note(value, beat_length, velocity, beat_type)
        ELSE build_note_wrapper(value, duration, velocity)

(***************************************************************************)
(* A call of parse_note_data, with get_tied_note's loop taken one pass at  *)
(* a time.                                                                 *)
(***************************************************************************)
Keys == {60, 64}

InitTied ==
    /\ tcall \in [value : {60}, velocity : {90},
                  beat_length : 1..MaxBeatLength, beat_type : BeatTypes]
    /\ remaining_beats = 0
    /\ nested = <<>>
    /\ tied = <<>>
    /\ tret = NoNote
    /\ tpc = "args"
    /\ IdleDur
    /\ IdleTrack
    /\ IdleMidi

\* parse_note_data up to its branch: a classified length returns at once
ParseNoteData ==
    /\ tpc = "args"
    /\ LET duration == beat_type_map(tcall.beat_length, tcall.beat_type)
       IN  IF duration.duration = "NaN"
           THEN /\ remaining_beats' = tcall.beat_length
                /\ tpc' = "tied"
                /\ tret' = tret
           ELSE /\ remaining_beats' = remaining_beats
                /\ tpc' = "returned"
                /\ tret' = build_note_wrapper(tcall.value, duration, tcall.velocity)
    /\ UNCHANGED <<tcall, nested, tied, dvars, pvars, mvars>>

TiedIteration ==
    /\ tpc = "tied"
    /\ remaining_beats > 0
    /\ LET st == tied_iteration(
                    [remaining_beats |-> remaining_beats, nested |-> nested, notes |-> tied],
                    tcall.value, tcall.velocity, tcall.beat_type)
       IN  /\ remaining_beats' = st.remaining_beats
           /\ nested' = st.nested
           /\ tied' = st.notes
    /\ UNCHANGED <<tcall, tret, tpc, dvars, pvars, mvars>>

TiedReturn ==
    /\ tpc = "tied"
    /\ ~(remaining_beats > 0)
    /\ tret' = ModifiedNote("TiedNote", tied)
    /\ tpc' = "returned"
    /\ UNCHANGED <<tcall, remaining_beats, nested, tied, dvars, pvars, mvars>>

NextTied == ParseNoteData \/ TiedIteration \/ TiedReturn

SpecTied == InitTied /\ [][NextTied]_vars

(***************************************************************************)
(* get_tied_note on long notes.  remaining_beats is an f32: from 2^24      *)
(* beats on the f32 values are whole numbers of beats, 2^(k - 23) apart    *)
(* between 2^k and 2^(k + 1), and a subtraction returns the nearest of     *)
(* them.  Here a length is a whole number of beats.                        *)
(***************************************************************************)
\* the distance between the f32 values around n beats
RECURSIVE f32_ulp(_)
f32_ulp(n) == IF n < 2 ^ 24 THEN 1 ELSE 2 * f32_ulp(n \div 2)

\* the f32 nearest to n beats, a tie going to the even significand
f32_round(n) ==
    LET ulp == f32_ulp(n)
        below == (n \div ulp) * ulp
        rest == n - below
    IN  IF 2 * rest < ulp THEN below
        ELSE IF 2 * rest > ulp THEN below + ulp
        ELSE IF (below \div ulp) % 2 = 0 THEN below
        ELSE below + ulp

\* one pass of the body of get_tied_note's while loop with at least 8.0
\* beats remaining: get_nested_beat_value returns the last table value, 7.0
long_tied_iteration(st, value, velocity, beat_type) ==
    LET nested_beat_value == POSSIBLE_NOTE_LENGTHS[Len(POSSIBLE_NOTE_LENGTHS)]
        new_duration == beat_type_map(nested_beat_value, beat_type)
    IN  [remaining_beats |-> f32_round(st.remaining_beats - nested_beat_value \div BeatUnit),
         nested |-> Append(st.nested, nested_beat_value),
         notes |-> Append(st.notes, build_note_wrapper(value, new_duration, velocity))]

\* the long lengths explored: the first f32 values from each power of two
LongBeatLengths ==
    {2 ^ k + i * f32_ulp(2 ^ k) : k \in 24..MaxExponent, i \in 0..3}

InitTiedLong ==
    /\ tcall \in [value : {60}, velocity : {90},
                  beat_length : LongBeatLengths, beat_type : {2}]
    /\ remaining_beats = 0
    /\ nested = <<>>
    /\ tied = <<>>
    /\ tret = NoNote
    /\ tpc = "args"
    /\ IdleDur
    /\ IdleTrack
    /\ IdleMidi

\* parse_note_data: no length above 7.0 beats is classified
ParseLongNoteData ==
    /\ tpc = "args"
    /\ remaining_beats' = tcall.beat_length
    /\ tpc' = "tied"
    /\ UNCHANGED <<tcall, nested, tied, tret, dvars, pvars, mvars>>

\* the passes of the loop are followed up to MaxLeaves leaves
LongTiedIteration ==
    /\ tpc = "tied"
    /\ remaining_beats >= 8 + 7 * MaxLeaves
    /\ Len(tied) < MaxLeaves
    /\ LET st == long_tied_iteration(
                    [remaining_beats |-> remaining_beats, nested |-> nested, notes |-> tied],
                    tcall.value, tcall.velocity, tcall.beat_type)
       IN  /\ remaining_beats' = st.remaining_beats
           /\ nested' = st.nested
           /\ tied' = st.notes
    /\ UNCHANGED <<tcall, tret, tpc, dvars, pvars, mvars>>

NextTiedLong == ParseLongNoteData \/ LongTiedIteration

SpecTiedLong == InitTiedLong /\ [][NextTiedLong]_vars

(***************************************************************************)
(* The f32 arithmetic of quantize and get_notes.  A positive f32 is the    *)
(* record of its significand sig, 2^23 <= sig < 2^24, and its exponent     *)
(* exp: its value is sig * 2^exp.  A product or a quotient is the f32      *)
(* nearest to the exact result, a tie going to the even significand.       *)
(***************************************************************************)
F32(sig, exp) == [sig |-> sig, exp |-> exp]

\* the f32 nearest to (q + a fraction) * 2^e, for q >= 2^24 when the fraction
\* (sticky) is not zero
RECURSIVE f32_pack(_, _, _)
f32_pack(q, e, sticky) ==
    IF q < 2 ^ 12 THEN f32_pack(q * 2 ^ 12, e - 12, sticky)
    ELSE IF q < 2 ^ 18 THEN f32_pack(q * 2 ^ 6, e - 6, sticky)
    ELSE IF q < 2 ^ 21 THEN f32_pack(q * 2 ^ 3, e - 3, sticky)
    ELSE IF q < 2 ^ 23 THEN f32_pack(2 * q, e - 1, sticky)
    ELSE IF q < 2 ^ 24 THEN F32(q, e)
    ELSE IF q >= 2 ^ 25 THEN f32_pack(q \div 2, e + 1, sticky \/ q % 2 = 1)
    ELSE LET half == q \div 2
             up == q % 2 = 1 /\ (sticky \/ half % 2 = 1)
             sig == IF up THEN half + 1 ELSE half
         IN  IF sig = 2 ^ 24 THEN F32(2 ^ 23, e + 2) ELSE F32(sig, e + 1)

\* n as f32, for an integer n > 0
f32_of(n) == f32_pack(n, 0, FALSE)

\* the first `bits` bits of num / den and what is left, for num < den < 2^24,
\* seven bits at a time
RECURSIVE f32_long_division(_, _, _, _)
f32_long_division(num, den, bits, quotient) ==
    IF bits = 0 THEN [quotient |-> quotient, rest |-> num]
    ELSE LET step == IF bits < 7 THEN bits ELSE 7
             scaled == num * 2 ^ step
         IN  f32_long_division(scaled % den, den, bits - step,
                               quotient * 2 ^ step + scaled \div den)

\* a / b
f32_div(a, b) ==
    LET whole == IF a.sig >= b.sig THEN 1 ELSE 0
        d == f32_long_division(a.sig - whole * b.sig, b.sig, 25, whole)
    IN  f32_pack(d.quotient, a.exp - b.exp - 25, d.rest # 0)

\* a * b: the 48-bit product of the significands is summed from the products
\* of their 12-bit halves
f32_mul(a, b) ==
    LET a1 == a.sig \div 2 ^ 12
        a0 == a.sig % 2 ^ 12
        b1 == b.sig \div 2 ^ 12
        b0 == b.sig % 2 ^ 12
        mid == a1 * b0 + a0 * b1
        low == (mid % 2 ^ 12) * 2 ^ 12 + a0 * b0
        high == a1 * b1 + mid \div 2 ^ 12 + low \div 2 ^ 24
        rest == low % 2 ^ 24
    IN  f32_pack(4 * high + rest \div 2 ^ 22, a.exp + b.exp + 22, rest % 2 ^ 22 # 0)

\* usize::MAX; every index from 2^30 on is modelled by it
USIZE_MAX == 2 ^ 30

\* x.floor() as usize, and x as usize
f32_floor(x) ==
    IF x.exp >= 7 THEN USIZE_MAX
    ELSE IF x.exp >= 0 THEN x.sig * 2 ^ x.exp
    ELSE IF x.exp <= -24 THEN 0
    ELSE x.sig \div 2 ^ (0 - x.exp)

\* the length of x beats in 1/96 beats.  beat_type_map and get_tied_note
\* compare a length with multiples of 1/32 beat and subtract such multiples
\* from it: a length that is a whole number of 1/96 beats is that number, any
\* other one is a whole number of 1/96 beats that lies between the same two
\* multiples of 1/32 beat and is no such multiple
f32_units(x) ==
    LET n == 3 * x.sig
        down == 0 - (x.exp + 5)
    IN  IF down <= 0 THEN n * 2 ^ (0 - down)
        ELSE IF down >= 27 THEN 1
        ELSE LET below == n \div 2 ^ down
             IN  IF n % 2 ^ down = 0 THEN below
                 ELSE IF below % 3 = 0 THEN below + 1
                 ELSE below

(***************************************************************************)
(* parsing/mod.rs: get_raw_note_data                                       *)
(***************************************************************************)
\* quantize: a ticks-per-beat that 12 does not divide is scaled by 12
scalar_of(ticks_per_beat) == IF ticks_per_beat % 12 # 0 THEN 12 ELSE 1

scaled_ticks_per_beat(ticks_per_beat) == ticks_per_beat * scalar_of(ticks_per_beat)

\* (ticks_per_beat * 0.125).ceil() as u32
rest_threshold(ticks_per_beat) == (ticks_per_beat + 7) \div 8

RawNoteData(k, t, v) == [key |-> k, onset |-> t, vel |-> v]

\* a loop body whose rests start at tick 0 instead of the last note-off
raw_event_rest_at_zero(st, event, ticks_per_beat, scalar) ==
    LET now == st.cur_time + event.delta * scalar
    IN  IF event.kind = "NoteOn"
        THEN [st EXCEPT
                !.cur_time = now,
                !.cur_velocity = event.vel,
                !.note_on_time = now,
                !.data = IF now - st.note_off_time >= (ticks_per_beat + 7) \div 8
                         THEN Append(@, RawNoteData(REST, 0, 0))
                         ELSE @]
        ELSE IF event.kind = "NoteOff"
        THEN [st EXCEPT
                !.cur_time = now,
                !.data = Append(@, RawNoteData(event.key, st.note_on_time, st.cur_velocity)),
                !.note_off_time = now]
        ELSE [st EXCEPT !.cur_time = now]

\* the body of get_raw_note_data's loop for one event
raw_event(st, event, ticks_per_beat, scalar) ==
    LET now == st.cur_time + event.delta * scalar
    IN  IF event.kind = "NoteOn"
        THEN [st EXCEPT
                !.cur_time = now,
                !.cur_velocity = event.vel,
                !.note_on_time = now,
                !.data = IF now - st.note_off_time >= rest_threshold(ticks_per_beat)
                         THEN Append(@, RawNoteData(REST, st.note_off_time, 0))
                         ELSE @]
        ELSE IF event.kind = "NoteOff"
        THEN [st EXCEPT
                !.cur_time = now,
                !.data = Append(@, RawNoteData(event.key, st.note_on_time, st.cur_velocity)),
                !.note_off_time = now]
        ELSE [st EXCEPT !.cur_time = now]

(***************************************************************************)
(* parsing/mod.rs: quantize                                                *)
(***************************************************************************)
\* precision_beat = precision.get_beat_count(beat_type), in 1/96 beats
precision_beat(m) == get_beat_count(m.precision, m.beat_type)

\* a quotient by 0.0: the f32 infinity, as a value above every other f32
F32_INFINITY == F32(2 ^ 23, 105)

\* divisions is 4.0 / precision_beat / 2.0 * 1.5 with the triplet scan and
\* 1.0 / precision_beat without; precision_beat is a whole number of 1/32
\* beats, which an f32 holds exactly
divisions(m) ==
    LET beats == f32_pack(precision_beat(m) \div 3, -5, FALSE)
    IN  IF precision_beat(m) = 0 THEN F32_INFINITY
        ELSE IF m.triplet
        THEN f32_mul(f32_div(f32_div(f32_of(4), beats), f32_of(2)), f32_pack(3, -1, FALSE))
        ELSE f32_div(f32_of(1), beats)

\* divisions as usize
divisions_usize(m) == f32_floor(divisions(m))

\* (onset as f32 * (1.0 / ticks_per_beat) * divisions).floor() as usize; the
\* onset 0 gives 0.0, or the NaN of 0.0 * infinity, and either is cast to 0
position_of(onset, ticks_per_beat, slots) ==
    IF onset = 0 THEN 0
    ELSE f32_floor(f32_mul(f32_mul(f32_of(onset), f32_div(f32_of(1), f32_of(ticks_per_beat))),
                           slots))

Panicked == [panic |-> TRUE, beats |-> <<>>]

Beat(grid, count) == [grid |-> grid, count |-> count]

\* note_count += 1 on a u8: past 255 the sum panics in a build with overflow
\* checks and wraps to 0 in a build without
u8_increment(n, overflow_checks) ==
    IF n + 1 <= 255 THEN [panic |-> FALSE, value |-> n + 1]
    ELSE [panic |-> overflow_checks, value |-> (n + 1) % 256]

\* quantize's two nested loops; raw is `note` followed by raw_note_data, and
\* slots is the f32 divisions that get_notes hands to quantize
RECURSIVE quantize_loop(_, _, _, _, _, _, _, _)
quantize_loop(raw, cur_beat, beat_container, note_count, out, ticks_per_beat, slots, overflow_checks) ==
    LET note == Head(raw)
    IN  IF note.onset < cur_beat
        THEN LET onset == note.onset - (cur_beat - ticks_per_beat)
                 position == position_of(onset, ticks_per_beat, slots)
                 counted == u8_increment(note_count, overflow_checks)
             IN  IF onset < 0 \/ position >= Len(beat_container) \/ counted.panic
                 THEN Panicked
                 ELSE LET pushed == [beat_container EXCEPT
                                        ![position + 1] = Append(@, <<note.key, note.vel>>)]
                      IN  IF Tail(raw) = <<>>
                          THEN [panic |-> FALSE,
                                beats |-> Append(out, Beat(pushed, counted.value))]
                          ELSE quantize_loop(Tail(raw), cur_beat, pushed, counted.value,
                                             out, ticks_per_beat, slots, overflow_checks)
        ELSE quantize_loop(raw, cur_beat + ticks_per_beat,
                           [k \in 1..f32_floor(slots) |-> <<>>], 0,
                           Append(out, Beat(beat_container, note_count)), ticks_per_beat,
                           slots, overflow_checks)

\* the end of quantize, q being what its loops have built: an empty first
\* slot of the first beat gets a rest
quantize_first_slot(q, overflow_checks) ==
    IF q.panic THEN Panicked
    ELSE IF q.beats[1].grid = <<>> THEN Panicked
    ELSE IF q.beats[1].grid[1] = <<>>
    THEN LET counted == u8_increment(q.beats[1].count, overflow_checks)
         IN  IF counted.panic THEN Panicked
             ELSE [q EXCEPT !.beats[1].grid[1] = <<<<REST, 0>>>>,
                            !.beats[1].count = counted.value]
    ELSE q

\* quantize, after get_raw_note_data has returned raw_note_data; slots is
\* the f32 divisions, and a Vec of usize::MAX slots cannot be allocated
quantize(m, raw_note_data, slots, overflow_checks) ==
    IF raw_note_data = <<>> THEN [panic |-> FALSE, beats |-> <<>>]
    ELSE IF f32_floor(slots) = USIZE_MAX THEN Panicked
    ELSE quantize_first_slot(
            quantize_loop(raw_note_data, scaled_ticks_per_beat(m.ticks_per_beat),
                          [k \in 1..f32_floor(slots) |-> <<>>], 0, <<>>,
                          scaled_ticks_per_beat(m.ticks_per_beat), slots, overflow_checks),
            overflow_checks)

(***************************************************************************)
(* parsing/mod.rs: get_notes and what it calls                             *)
(***************************************************************************)
RECURSIVE gen_wrapper_loop(_, _, _)
gen_wrapper_loop(cur_note, beat_length, beat_type) ==
    IF cur_note = <<>> THEN <<>>
    ELSE LET value == Head(cur_note)[1]
             velocity == Head(cur_note)[2]
             rest == gen_wrapper_loop(Tail(cur_note), beat_length, beat_type)
         IN  IF value # REST
             THEN <<parse_note_data(value, velocity, beat_length, beat_type)>> \o rest
             ELSE rest

gen_wrapper(cur_note, beat_length, beat_type) ==
    LET chord == gen_wrapper_loop(cur_note, beat_length, beat_type)
    IN  IF Len(chord) = 0
        THEN build_note_wrapper(REST, beat_type_map(beat_length, beat_type), 0)
        ELSE IF Len(chord) = 1 THEN chord[1]
        ELSE ModifiedNote("Chord", chord)

RECURSIVE gen_triplet_loop(_, _)
gen_triplet_loop(beat_data, beat_type) ==
    IF beat_data = <<>> THEN <<>>
    ELSE IF Len(Head(beat_data)) > 0
    THEN <<gen_wrapper(Head(beat_data), BeatUnit \div 2, beat_type)>>
            \o gen_triplet_loop(Tail(beat_data), beat_type)
    ELSE gen_triplet_loop(Tail(beat_data), beat_type)

gen_triplet(beat_data, beat_type) ==
    ModifiedNote("Triplet", gen_triplet_loop(beat_data, beat_type))

\* the inner while of is_possible_triplet: the empty slots from index i on
RECURSIVE empty_run(_, _)
empty_run(beat_grid, i) ==
    IF i < Len(beat_grid) /\ Len(beat_grid[i + 1]) = 0
    THEN 1 + empty_run(beat_grid, i + 1)
    ELSE 0

Max3(a, b, c) == IF a >= b /\ a >= c THEN a ELSE IF b >= c THEN b ELSE c
Min3(a, b, c) == IF a <= b /\ a <= c THEN a ELSE IF b <= c THEN b ELSE c

is_possible_triplet(beat) ==
    IF beat.count # 3 THEN FALSE
    ELSE LET l0 == 1 + empty_run(beat.grid, 1)
             l1 == 1 + empty_run(beat.grid, l0 + 1)
             l2 == 1 + empty_run(beat.grid, l0 + l1 + 1)
             longest == Max3(l0, l1, l2)
             shortest == Min3(l0, l1, l2)
         IN  longest - shortest <= 2 /\ longest > Len(beat.grid) \div 4

RECURSIVE get_triplets_loop(_, _)
get_triplets_loop(quantized, i) ==
    IF i >= Len(quantized) THEN <<>>
    ELSE IF is_possible_triplet(quantized[i + 1])
    THEN <<i + 1>> \o get_triplets_loop(quantized, i + 1)
    ELSE get_triplets_loop(quantized, i + 1)

get_triplets(quantized) == get_triplets_loop(quantized, 0)

RECURSIVE flatten_beats(_)
flatten_beats(quantized) ==
    IF quantized = <<>> THEN <<>>
    ELSE Head(quantized).grid \o flatten_beats(Tail(quantized))

\* length as f32 / divisions
beat_length_of(length, slots) == f32_div(f32_of(length), slots)

\* get_notes' while loop; st holds notes, beat_count, i, length, cur_note and
\* possible_triplets, and slots is the f32 divisions
RECURSIVE get_notes_loop(_, _, _, _)
get_notes_loop(st, complete_beat_grid, m, slots) ==
    IF ~(st.i < Len(complete_beat_grid)) THEN st
    ELSE
    LET divs == f32_floor(slots)
        at_beat == st.i % divs = 0
        count == IF at_beat THEN st.beat_count + 1 ELSE st.beat_count
    IN  IF at_beat /\ Len(st.possible_triplets) # 0 /\ st.possible_triplets[1] = count
        THEN get_notes_loop(
                [st EXCEPT
                    !.beat_count = count,
                    !.notes = Append(@, gen_triplet(
                                SubSeq(complete_beat_grid, st.i + 1, st.i + divs),
                                m.beat_type)),
                    !.possible_triplets = Tail(@),
                    !.i = @ + divs,
                    !.length = 0],
                complete_beat_grid, m, slots)
        ELSE IF Len(complete_beat_grid[st.i + 1]) # 0
        THEN get_notes_loop(
                [st EXCEPT
                    !.beat_count = count,
                    !.notes = IF st.length # 0
                              THEN Append(@, gen_wrapper(st.cur_note,
                                        f32_units(beat_length_of(st.length, slots)),
                                        m.beat_type))
                              ELSE @,
                    !.cur_note = complete_beat_grid[st.i + 1],
                    !.length = 1,
                    !.i = @ + 1],
                complete_beat_grid, m, slots)
        ELSE get_notes_loop(
                [st EXCEPT !.beat_count = count, !.length = @ + 1, !.i = @ + 1],
                complete_beat_grid, m, slots)

\* get_notes, after quantize has returned quantized
get_notes(m, quantized) ==
    get_notes_loop(
        [notes |-> <<>>, beat_count |-> 0, i |-> 0, length |-> 0, cur_note |-> <<>>,
         possible_triplets |-> IF m.triplet THEN get_triplets(quantized) ELSE <<>>],
        flatten_beats(quantized), m, divisions(m)).notes

(***************************************************************************)
(* The parse of one track: get_notes reads the track's events one at a     *)
(* time (get_raw_note_data), snaps them to the grid (quantize) and walks   *)
(* the grid.                                                               *)
(***************************************************************************)
\* the parses explored: the default parse of a 12-tick beat, the default parse
\* of a 3-tick beat (which quantize scales by 12) and a triplet scan of a
\* 3-tick beat at quarter-note precision
Parses ==
    { [ticks_per_beat |-> 12, beat_type |-> 2,
       precision |-> DEFAULT_DURATION_PRECISION, triplet |-> FALSE],
      [ticks_per_beat |-> 3, beat_type |-> 2,
       precision |-> DEFAULT_DURATION_PRECISION, triplet |-> FALSE],
      [ticks_per_beat |-> 3, beat_type |-> 2,
       precision |-> [duration |-> "QUARTER", modifier |-> "None"], triplet |-> TRUE] }

Init ==
    /\ midi \in Parses
    /\ track = <<>>
    /\ cur_time = 0
    /\ cur_velocity = 0
    /\ note_on_time = 0
    /\ note_off_time = 0
    /\ data = <<>>
    /\ quantized_note_data = <<>>
    /\ possible_triplets = <<>>
    /\ notes = <<>>
    /\ pc = "raw"
    /\ IdleDur
    /\ IdleTied
    /\ IdleMidi

RawState ==
    [cur_time |-> cur_time, cur_velocity |-> cur_velocity, note_on_time |-> note_on_time,
     note_off_time |-> note_off_time, data |-> data]

\* an event of the track: its delta time and, for a note message, its key and
\* velocity
TrackEventOf(what, d, k, v) == [kind |-> what, delta |-> d, key |-> k, vel |-> v]

\* get_raw_note_data takes the next event of the track
TrackEvent(what, d, k, v) ==
    /\ pc = "raw"
    /\ Len(track) < MaxEvents
    /\ LET st == raw_event(RawState, TrackEventOf(what, d, k, v),
                           scaled_ticks_per_beat(midi.ticks_per_beat),
                           scalar_of(midi.ticks_per_beat))
       IN  /\ cur_time' = st.cur_time
           /\ cur_velocity' = st.cur_velocity
           /\ note_on_time' = st.note_on_time
           /\ note_off_time' = st.note_off_time
           /\ data' = st.data
    /\ track' = Append(track, TrackEventOf(what, d, k, v))
    /\ UNCHANGED <<midi, quantized_note_data, possible_triplets, notes, pc, dvars, tvars, mvars>>

\* a note-on's velocity is its key plus 10, so that a velocity names its note
NoteOnEvent ==
    \E k \in Keys, d \in 0..MaxDelta : TrackEvent("NoteOn", d, k, k + 10)

NoteOffEvent ==
    \E k \in Keys, d \in 0..MaxDelta : TrackEvent("NoteOff", d, k, 0)

OtherEvent ==
    \E d \in 0..MaxDelta : TrackEvent("Other", d, 0, 0)

\* get_notes from the return of quantize on: q is what quantize returned
Quantized(q) ==
    IF q.panic
    THEN /\ pc' = "panic"
         /\ quantized_note_data' = quantized_note_data
         /\ possible_triplets' = possible_triplets
         /\ notes' = notes
    ELSE /\ pc' = "done"
         /\ quantized_note_data' = q.beats
         /\ possible_triplets' = IF midi.triplet THEN get_triplets(q.beats) ELSE <<>>
         /\ notes' = get_notes(midi, q.beats)

\* the track ends: get_raw_note_data returns, quantize builds the grid and
\* get_notes walks it and returns, in a build with or without overflow checks
GetNotes ==
    /\ pc = "raw"
    /\ \E overflow_checks \in BOOLEAN :
        Quantized(quantize(midi, data, divisions(midi), overflow_checks))
    /\ UNCHANGED <<midi, rvars, dvars, tvars, mvars>>

Next == NoteOnEvent \/ NoteOffEvent \/ OtherEvent \/ GetNotes

Spec == Init /\ [][Next]_vars

(***************************************************************************)
(* The triplet scan of get_notes on its own: quantize has returned the     *)
(* beats, and get_triplets reports those is_possible_triplet accepts.      *)
(***************************************************************************)
\* the parses with the triplet scan: 3, 4 and 6 slots to the beat
TripletParses ==
    { [ticks_per_beat |-> 12, beat_type |-> 2,
       precision |-> [duration |-> d, modifier |-> mo], triplet |-> TRUE] :
        <<d, mo>> \in {<<"QUARTER", "None">>, <<"EIGHTH", "Dotted">>, <<"EIGHTH", "None">>} }

\* what quantize leaves in a slot: nothing, a rest, a note, or two notes
SlotContents ==
    {<<>>, <<<<REST, 0>>>>, <<<<60, 70>>>>, <<<<60, 70>>, <<64, 74>>>>}

\* the u8 note_count of a beat that quantize returned: a build with overflow
\* checks returns no beat of more than 255 intervals, a build without them
\* counts modulo 256
RECURSIVE note_count_of(_)
note_count_of(grid) ==
    IF grid = <<>> THEN 0 ELSE (Len(Head(grid)) + note_count_of(Tail(grid))) % 256

\* the beats quantize can return for a track of two beats: the first slot of
\* the first beat and some slot of the last beat are never empty
QuantizedBeats(m) ==
    LET first == [k \in 1..divisions_usize(m) |-> IF k = 1 THEN <<<<60, 70>>>> ELSE <<>>]
    IN  { <<Beat(first, 1), Beat(grid, note_count_of(grid))>> :
            grid \in {g \in [1..divisions_usize(m) -> SlotContents] :
                        \E k \in 1..divisions_usize(m) : g[k] # <<>>} }

InitTriplets ==
    /\ midi \in TripletParses
    /\ quantized_note_data \in QuantizedBeats(midi)
    /\ possible_triplets = <<>>
    /\ notes = <<>>
    /\ pc = "quantized"
    /\ track = <<>>
    /\ cur_time = 0
    /\ cur_velocity = 0
    /\ note_on_time = 0
    /\ note_off_time = 0
    /\ data = <<>>
    /\ IdleDur
    /\ IdleTied
    /\ IdleMidi

\* get_notes calls get_triplets on the beats and walks the grid
ScanTriplets ==
    /\ pc = "quantized"
    /\ possible_triplets' = get_triplets(quantized_note_data)
    /\ notes' = get_notes(midi, quantized_note_data)
    /\ pc' = "done"
    /\ UNCHANGED <<midi, rvars, quantized_note_data, dvars, tvars, mvars>>

NextTriplets == ScanTriplets

SpecTriplets == InitTriplets /\ [][NextTriplets]_vars

(***************************************************************************)
(* lib.rs: Midi::parse.  Midi::new reads the tempo, the time signatures    *)
(* and the ticks per beat, load_tracks then builds one Track per track of  *)
(* the file.  A panic of any of the calls ends the parse.                  *)
(***************************************************************************)
TempoEvent(d, us) == [kind |-> "Tempo", delta |-> d, tempo |-> us]

TimeSignatureEvent(d, n, dn) ==
    [kind |-> "TimeSignature", delta |-> d, numerator |-> n, denominator |-> dn]

\* an InstrumentName event and the bytes of the name
InstrumentNameEvent(d, bytes) == [kind |-> "InstrumentName", delta |-> d, name |-> bytes]

\* microseconds_per_beat / 1000000 * 60 in u32, for the first Tempo event
RECURSIVE get_bpm(_)
get_bpm(events) ==
    IF events = <<>> THEN 0
    ELSE IF Head(events).kind = "Tempo" THEN (Head(events).tempo \div 1000000) * 60
    ELSE get_bpm(Tail(events))

TimeSignature(n, dn, t) == [beat_count |-> n, beat_type |-> dn, time_of_occurance |-> t]

RECURSIVE get_time_signature_loop(_, _)
get_time_signature_loop(events, time) ==
    IF events = <<>> THEN <<>>
    ELSE LET now == time + Head(events).delta
         IN  IF Head(events).kind = "TimeSignature"
             THEN <<TimeSignature(Head(events).numerator, Head(events).denominator, now)>>
                    \o get_time_signature_loop(Tail(events), now)
             ELSE get_time_signature_loop(Tail(events), now)

get_time_signature(events) == get_time_signature_loop(events, 0)

\* the ticks of a metrical header; any other timing panics
Panic == -1

get_ticks_per_beat(header) ==
    IF header.timing = "Metrical" THEN header.ticks ELSE Panic

\* Midi::new; smf.tracks[0] panics for a file without tracks
Midi_new(file) ==
    IF file.tracks = <<>> \/ get_ticks_per_beat(file) = Panic THEN [panic |-> TRUE]
    ELSE [panic |-> FALSE,
          midi |-> [bmp |-> get_bpm(file.tracks[1]),
                    time_signatures |-> get_time_signature(file.tracks[1]),
                    ticks_per_beat |-> get_ticks_per_beat(file),
                    tracks |-> <<>>]]

\* get_raw_note_data: the loop over the events of a track
RECURSIVE get_raw_note_data_loop(_, _, _, _)
get_raw_note_data_loop(st, events, ticks_per_beat, scalar) ==
    IF events = <<>> THEN st
    ELSE get_raw_note_data_loop(raw_event(st, Head(events), ticks_per_beat, scalar),
                                Tail(events), ticks_per_beat, scalar)

get_raw_note_data(events, ticks_per_beat, scalar) ==
    get_raw_note_data_loop(
        [cur_time |-> 0, cur_velocity |-> 0, note_on_time |-> 0, note_off_time |-> 0,
         data |-> <<>>],
        events, ticks_per_beat, scalar).data

\* a lookup that falls back to the quarter note when there is no time signature
beat_type_or_quarter(time_signatures) ==
    IF time_signatures = <<>> THEN 2 ELSE time_signatures[1].beat_type

\* midi.time_signatures[0].beat_type; the index panics on an empty Vec
first_beat_type(time_signatures) ==
    IF time_signatures = <<>> THEN Panic ELSE time_signatures[1].beat_type

\* the bytes after the first `more` continuation bytes (0x80..0xBF) of bytes;
\* Invalid when one of them is missing
Invalid == <<-1>>

RECURSIVE continuation(_, _)
continuation(bytes, more) ==
    IF more = 0 THEN bytes
    ELSE IF bytes = <<>> \/ Head(bytes) \notin 128..191 THEN Invalid
    ELSE continuation(Tail(bytes), more - 1)

\* String::from_utf8(bytes).is_ok(): bytes is a sequence of well-formed UTF-8
\* characters of one to four bytes
RECURSIVE is_utf8(_)
is_utf8(bytes) ==
    IF bytes = <<>> THEN TRUE
    ELSE LET first == Head(bytes)
             second == IF Len(bytes) > 1 THEN bytes[2] ELSE -1
             rest == Tail(bytes)
             after ==
                IF first <= 127 THEN rest
                ELSE IF first \in 194..223 THEN continuation(rest, 1)
                ELSE IF first = 224
                THEN IF second \in 160..191 THEN continuation(rest, 2) ELSE Invalid
                ELSE IF first \in (225..236) \cup {238, 239} THEN continuation(rest, 2)
                ELSE IF first = 237
                THEN IF second \in 128..159 THEN continuation(rest, 2) ELSE Invalid
                ELSE IF first = 240
                THEN IF second \in 144..191 THEN continuation(rest, 3) ELSE Invalid
                ELSE IF first \in 241..243 THEN continuation(rest, 3)
                ELSE IF first = 244
                THEN IF second \in 128..143 THEN continuation(rest, 3) ELSE Invalid
                ELSE Invalid
         IN  after # Invalid /\ is_utf8(after)

\* get_name: the bytes of the first InstrumentName event as a String, which
\* is those bytes; bytes that are no UTF-8 make unwrap panic; no event gives ""
RECURSIVE get_name(_)
get_name(events) ==
    IF events = <<>> THEN [panic |-> FALSE, name |-> <<>>]
    ELSE IF Head(events).kind = "InstrumentName"
    THEN IF is_utf8(Head(events).name)
         THEN [panic |-> FALSE, name |-> Head(events).name]
         ELSE [panic |-> TRUE]
    ELSE get_name(Tail(events))

\* Track { name, notes }: named is what get_name returned, args hold the
\* beat type get_notes looks up and q is what quantize returned
Track(named, args, q) ==
    IF named.panic \/ args.beat_type = Panic \/ q.panic THEN [panic |-> TRUE]
    ELSE [panic |-> FALSE,
          track |-> [name |-> named.name, notes |-> get_notes(args, q.beats)]]

\* the call of get_notes in parse_track, up to the return of quantize
parse_track_quantize(args, events, overflow_checks) ==
    quantize(args,
             get_raw_note_data(events, scaled_ticks_per_beat(args.ticks_per_beat),
                               scalar_of(args.ticks_per_beat)),
             divisions(args), overflow_checks)

\* the Midi fields and the parse options that get_notes reads
parse_track_args(m, precision, triplet) ==
    [ticks_per_beat |-> m.ticks_per_beat,
     beat_type |-> first_beat_type(m.time_signatures),
     precision |-> precision, triplet |-> triplet]

\* parse_track: the Track of one track of the file, or the panic of get_name
\* or of get_notes
parse_track(m, events, precision, triplet, overflow_checks) ==
    Track(get_name(events), parse_track_args(m, precision, triplet),
          parse_track_quantize(parse_track_args(m, precision, triplet), events,
                               overflow_checks))

\* load_tracks' loop after parse_track has returned t for the first of the
\* tracks left; file_tracks are the tracks after it
RECURSIVE load_tracks_loop(_, _, _, _, _, _)
load_tracks_push(m, tmp, t, file_tracks, precision, triplet, overflow_checks) ==
    IF t.panic THEN [panic |-> TRUE, midi |-> m]
    ELSE load_tracks_loop([m EXCEPT !.tracks = Append(@, t.track)], tmp, file_tracks,
                          precision, triplet, overflow_checks)

\* load_tracks; tmp is the Midi as Midi::new built it
load_tracks_loop(m, tmp, file_tracks, precision, triplet, overflow_checks) ==
    IF file_tracks = <<>> THEN [panic |-> FALSE, midi |-> m]
    ELSE load_tracks_push(
            m, tmp,
            parse_track(tmp, Head(file_tracks), precision, triplet, overflow_checks),
            Tail(file_tracks), precision, triplet, overflow_checks)

load_tracks(m, file, precision, triplet, overflow_checks) ==
    load_tracks_loop(m, m, file.tracks, precision, triplet, overflow_checks)

\* the tempos of the files explored, in microseconds per beat
Tempos == {250000, 500000, 1000000, 1500000}

\* the instrument names of the files explored: "Pi", and a byte that is no
\* UTF-8
Names == {<<80, 105>>, <<255>>}

\* the events track 0 is made of
TrackZeroEvents ==
    {TempoEvent(0, us) : us \in Tempos}
        \cup {InstrumentNameEvent(0, n) : n \in Names}
        \cup {TimeSignatureEvent(d, 4, dn) : d \in {0, 12}, dn \in {2, 3}}
        \cup {TrackEventOf("NoteOn", 0, 60, 70), TrackEventOf("NoteOff", 12, 60, 0)}

RECURSIVE SeqsUpTo(_, _)
SeqsUpTo(S, n) ==
    IF n = 0 THEN {<<>>}
    ELSE LET shorter == SeqsUpTo(S, n - 1)
         IN  shorter \cup {Append(q, e) : q \in shorter, e \in S}

\* a second track, of two notes one beat long each
NoteTrack ==
    <<TrackEventOf("NoteOn", 0, 60, 70), TrackEventOf("NoteOff", 12, 60, 0),
      TrackEventOf("NoteOn", 0, 64, 74), TrackEventOf("NoteOff", 12, 64, 0)>>

\* the files explored: no track, track 0 alone, or track 0 and the note track
Files ==
    {[timing |-> "Metrical", ticks |-> 12, tracks |-> <<>>]}
        \cup [timing : {"Metrical", "Timecode"}, ticks : {12},
              tracks : {<<t>> : t \in SeqsUpTo(TrackZeroEvents, MaxTrackZeroEvents)}
                        \cup {<<t, NoteTrack>> :
                                t \in SeqsUpTo(TrackZeroEvents, MaxTrackZeroEvents)}]

InitParse ==
    /\ smf \in Files
    /\ parse_midi = NoMidi
    /\ parse_ret = NoMidi
    /\ parse_pc = "read"
    /\ IdleDur
    /\ IdleTied
    /\ IdleTrack

\* let mut midi = Midi::new(&smf)
MidiNew ==
    /\ parse_pc = "read"
    /\ LET new == Midi_new(smf)
       IN  IF new.panic
           THEN parse_pc' = "panic" /\ parse_midi' = parse_midi
           ELSE parse_pc' = "new" /\ parse_midi' = new.midi
    /\ UNCHANGED <<smf, parse_ret, dvars, tvars, pvars>>

\* parse_with_precision after load_tracks: loaded is the Midi it has filled
\* and whether it panicked
Loaded(loaded) ==
    /\ parse_midi' = loaded.midi
    /\ IF loaded.panic
       THEN parse_pc' = "panic" /\ parse_ret' = parse_ret
       ELSE parse_pc' = "returned" /\ parse_ret' = loaded.midi

\* parsing::load_tracks(&mut midi, &smf, &precision, triplet), called by
\* Midi::parse, in a build with or without overflow checks; return midi
LoadTracks ==
    /\ parse_pc = "new"
    /\ \E overflow_checks \in BOOLEAN :
        Loaded(load_tracks(parse_midi, smf, DEFAULT_DURATION_PRECISION, FALSE,
                           overflow_checks))
    /\ UNCHANGED <<smf, dvars, tvars, pvars>>

NextParse == MidiNew \/ LoadTracks

SpecParse == InitParse /\ [][NextParse]_vars

(***************************************************************************)
(* get_notes under every precision parse_with_precision can be given: the  *)
(* track is one note, get_raw_note_data has read it, quantize and the grid *)
(* walk follow.                                                            *)
(***************************************************************************)
\* every base duration with every modifier
CanonicalPrecisions ==
    [duration : NoteDuration \ {"NaN"}, modifier : NoteDurationModifier]

PrecisionParses ==
    { [ticks_per_beat |-> 12, beat_type |-> 2, precision |-> p, triplet |-> t] :
        p \in CanonicalPrecisions, t \in BOOLEAN }

\* a track of one note that starts at tick d and lasts one tick
OneNoteTrack(d) ==
    <<TrackEventOf("NoteOn", d, 60, 70), TrackEventOf("NoteOff", 1, 60, 0)>>

InitGrid ==
    /\ midi \in PrecisionParses
    /\ track \in {OneNoteTrack(d) : d \in 0..MaxOnsetTick}
    /\ LET st == get_raw_note_data_loop(
                    [cur_time |-> 0, cur_velocity |-> 0, note_on_time |-> 0,
                     note_off_time |-> 0, data |-> <<>>],
                    track, scaled_ticks_per_beat(midi.ticks_per_beat),
                    scalar_of(midi.ticks_per_beat))
       IN  /\ cur_time = st.cur_time
           /\ cur_velocity = st.cur_velocity
           /\ note_on_time = st.note_on_time
           /\ note_off_time = st.note_off_time
           /\ data = st.data
    /\ quantized_note_data = <<>>
    /\ possible_triplets = <<>>
    /\ notes = <<>>
    /\ pc = "raw"
    /\ IdleDur
    /\ IdleTied
    /\ IdleMidi

NextGrid == GetNotes

SpecGrid == InitGrid /\ [][NextGrid]_vars

(***************************************************************************)
(* Properties of the duration functions.                                   *)
(***************************************************************************)
DurationScale == <<"WHOLE", "HALF", "QUARTER", "EIGHTH", "SIXTEENTH", "THIRTYSECOND">>

ScaleIndex(d) == CHOOSE k \in 1..6 : DurationScale[k] = d

\* the beats of a base duration when a quarter note is one beat: 4, 2, 1, ...
ScaleBeats(d) == 384 \div (2 ^ (ScaleIndex(d) - 1))

\* the modifier factor in quarters: 1.0, 1.5, 1.75
ModifierQuarters(m) == IF m = "None" THEN 4 ELSE IF m = "Dotted" THEN 6 ELSE 7

\* the duration n steps shorter (n > 0) or longer (n < 0) than d; a step
\* past either end of the scale leaves only NaN
Steps(d, n) ==
    LET k == ScaleIndex(d) + n
    IN  IF k \in 1..6 THEN DurationScale[k] ELSE "NaN"

\* the (base, modifier) pair whose length is b when a quarter note is one beat
TableEntry(b) ==
    CHOOSE e \in [duration : SeqToSet(DurationScale), modifier : NoteDurationModifier] :
        ScaleBeats(e.duration) * ModifierQuarters(e.modifier) = 4 * b

ReturnedDuration == [duration |-> dret.duration, modifier |-> dret.modifier]

Returned(fn) == dpc = "returned" /\ dcall.fn = fn

MapsTo(b, bt, d, m) ==
    (Returned("beat_type_map") /\ dcall.beats = b /\ dcall.beat_type = bt)
        => ReturnedDuration = [duration |-> d, modifier |-> m]

\* C1: for each of the 18 canonical beat values b and every beat type bt,
\* beat_type_map(b, bt) carries the modifier the table gives b and the table's
\* base for b moved bt - 2 steps toward shorter durations (2 - bt steps toward
\* longer ones when bt < 2); 1.0 is QUARTER at 2, EIGHTH at 3, HALF at 1, 2.0
\* is QUARTER at 3 and 0.75 is a dotted EIGHTH at 2.
C1_BeatTypeMapFollowsTable ==
    /\ (Returned("beat_type_map") /\ dcall.beats \in CanonicalBeats) =>
          /\ dret.modifier = TableEntry(dcall.beats).modifier
          /\ dret.duration =
                Steps(TableEntry(dcall.beats).duration, dcall.beat_type - 2)
    /\ MapsTo(96, 2, "QUARTER", "None")
    /\ MapsTo(96, 3, "EIGHTH", "None")
    /\ MapsTo(96, 1, "HALF", "None")
    /\ MapsTo(192, 3, "QUARTER", "None")
    /\ MapsTo(72, 2, "EIGHTH", "Dotted")

\* C1 witness: beat_type_map(1.75, 3) has returned a double dotted EIGHTH
C1_Witness ==
    /\ Returned("beat_type_map")
    /\ dcall.beats = 168
    /\ dcall.beat_type = 3
    /\ ReturnedDuration = [duration |-> "EIGHTH", modifier |-> "DoubleDotted"]

\* C2: for every canonical (base, modifier) pair and every beat type bt,
\* get_beat_count is the base's beat value (WHOLE 4 ... THIRTYSECOND 0.125)
\* times 2^(bt - 2) times the modifier factor 1.0 / 1.5 / 1.75.
C2_BeatCountScalesWithBeatType ==
    (Returned("get_beat_count") /\ dcall.self.duration # "NaN") =>
        16 * dret.beats =
            ScaleBeats(dcall.self.duration) * (2 ^ dcall.beat_type)
                * ModifierQuarters(dcall.self.modifier)

\* C3: for every canonical beat value b and every beat type bt,
\* get_beat_count(beat_type_map(b, bt), bt) = b.
C3_ClassificationRoundTrips ==
    (Returned("beat_type_map") /\ dcall.beats \in CanonicalBeats) =>
        get_beat_count(ReturnedDuration, dcall.beat_type) = dcall.beats

\* C6: quantize is idempotent: for every canonical duration d, beat type bt and
\* canonical precision length p, quantize(quantize(d, bt, p), bt, p) equals
\* quantize(d, bt, p).
C6_QuantizeIdempotent ==
    (Returned("quantize") /\ dcall.self.duration # "NaN") =>
        quantize_duration(ReturnedDuration, dcall.beat_type, dcall.precision_beats)
            = ReturnedDuration

\* sixteen times the beats of a canonical duration at a beat type: the
\* base's beats at 2, times 2^(bt - 2), times the modifier factor
BeatLength16(self, bt) ==
    ScaleBeats(self.duration) * (2 ^ bt) * ModifierQuarters(self.modifier)

\* the classification of a length given in sixteenths of the unit
Classification16(x, bt) ==
    IF x % 16 = 0 THEN beat_type_map(x \div 16, bt)
    ELSE [duration |-> "NaN", modifier |-> "None"]

\* C19: quantize(bt, p) snaps a duration of beat length b to the grid of p:
\* the classification of one grid unit p when b < p, otherwise the
\* classification of the largest multiple of p not above b, b - (b mod p).
C19_QuantizeSnapsToGrid ==
    (Returned("quantize") /\ dcall.self.duration # "NaN") =>
        LET b == BeatLength16(dcall.self, dcall.beat_type)
            unit == 16 * dcall.precision_beats
        IN  ReturnedDuration =
                IF b < unit THEN beat_type_map(dcall.precision_beats, dcall.beat_type)
                ELSE Classification16(b - (b % unit), dcall.beat_type)

(***************************************************************************)
(* Properties of the tied-note decomposition.                              *)
(***************************************************************************)
RECURSIVE SumSeq(_)
SumSeq(q) == IF q = <<>> THEN 0 ELSE Head(q) + SumSeq(Tail(q))

\* C4: for every beat length b > 0 that beat_type_map classifies as NaN and
\* every beat type, get_tied_note returns a TiedNote of finitely many leaves,
\* one per table value chosen, and the chosen values sum to exactly b.
C4_TiedNoteSumsToLength ==
    (tpc = "returned" /\ tret.kind = "TiedNote") =>
        /\ Len(tret.notes) = Len(nested)
        /\ SumSeq(nested) = tcall.beat_length

\* C18: at every step of the decomposition get_nested_beat_value(r), for the
\* remainder r > 0, is the largest value of POSSIBLE_NOTE_LENGTHS that does
\* not exceed r: the chosen unit is never greater than the remaining length
\* and the leaves come in non-increasing length order.
C18_LargestUnitNotAboveRemainder ==
    \A k \in 1..Len(nested) :
        LET r == tcall.beat_length - SumSeq(SubSeq(nested, 1, k - 1))
        IN  /\ nested[k] \in CanonicalBeats
            /\ nested[k] <= r
            /\ \A v \in CanonicalBeats : v <= r => v <= nested[k]
            /\ k > 1 => nested[k] <= nested[k - 1]

\* C16: get_tied_note's loop terminates for every finite starting length:
\* each pass strictly decreases the remaining length, by at least the
\* smallest table unit 0.125, so the remainder reaches 0 or less after
\* finitely many passes.  Stated of a pass on a long note, in whole beats.
C16_EveryPassDecreasesRemainder ==
    [][(tpc = "tied" /\ Len(tied') = Len(tied) + 1) =>
            8 * (remaining_beats - remaining_beats') >= 1]_vars

(***************************************************************************)
(* Properties of the raw interval extractor.  The monophonic reading of a  *)
(* track keeps one sounding note: a note-on opens it when none is open, a   *)
(* note-off of its pitch closes it.                                        *)
(***************************************************************************)
Front(q) == SubSeq(q, 1, Len(q) - 1)

Last(q) == q[Len(q)]

RECURSIVE DeltaSum(_)
DeltaSum(tr) == IF tr = <<>> THEN 0 ELSE Head(tr).delta + DeltaSum(Tail(tr))

\* the (scaled) tick of the last event of tr
TickOf(tr) == scalar_of(midi.ticks_per_beat) * DeltaSum(tr)

Silent == [on |-> FALSE, key |-> 0, onset |-> 0, vel |-> 0]

RECURSIVE Sounding(_)
Sounding(tr) ==
    IF tr = <<>> THEN Silent
    ELSE LET before == Sounding(Front(tr))
             e == Last(tr)
         IN  IF e.kind = "NoteOn" /\ ~before.on
             THEN [on |-> TRUE, key |-> e.key, onset |-> TickOf(tr), vel |-> e.vel]
             ELSE IF e.kind = "NoteOff" /\ before.on /\ e.key = before.key
             THEN Silent
             ELSE before

\* get_raw_note_data has just taken an event of this kind
Took(what) == Len(track') = Len(track) + 1 /\ Last(track').kind = what

HasNoteOff(tr) == \E k \in 1..Len(tr) : tr[k].kind = "NoteOff"

\* C7: whenever a note-on arrives at a tick strictly later than the
\* last recorded note-off tick (any gap > 0), a rest (pitch 255, velocity 0)
\* with its onset at that note-off tick is emitted before the new note.
C7_RestForEveryGap ==
    (/\ track # <<>>
     /\ Last(track).kind = "NoteOn"
     /\ HasNoteOff(track)
     /\ cur_time > note_off_time)
        => /\ data # <<>>
           /\ Last(data) = RawNoteData(REST, note_off_time, 0)

\* C8: a note-on for another pitch that arrives while a note is sounding is
\* ignored: it emits no interval and leaves the tracked onset tick and
\* velocity alone, so the interval the sounding note's note-off emits later
\* carries that note's own onset and velocity.
C8_OverlappingNoteOnIgnored ==
    [][/\ (Took("NoteOn") /\ Sounding(track).on
                /\ Last(track').key # Sounding(track).key)
            => /\ data' = data
               /\ note_on_time' = note_on_time
               /\ cur_velocity' = cur_velocity
       /\ (Took("NoteOff") /\ Sounding(track).on
                /\ Last(track').key = Sounding(track).key)
            => /\ data' # <<>>
               /\ Last(data').onset = Sounding(track).onset
               /\ Last(data').vel = Sounding(track).vel]_vars

\* C9: an interval is emitted only by a note-off of the sounding note's
\* pitch, and carries that note-on's pitch, onset tick and velocity; a
\* note-off that matches no sounding note (another pitch, or nothing
\* sounding) emits nothing and does not move the last note-off tick.
C9_OnlyMatchingNoteOffEmits ==
    [][Took("NoteOff") =>
        IF Sounding(track).on /\ Last(track').key = Sounding(track).key
        THEN data' = Append(data, RawNoteData(Sounding(track).key,
                                Sounding(track).onset, Sounding(track).vel))
        ELSE data' = data /\ note_off_time' = note_off_time]_vars

IsLeaf(node) == node.kind \in {"PlainNote", "Rest"}

RECURSIVE HasNaNLeaf(_)
HasNaNLeaf(node) ==
    IF IsLeaf(node) THEN node.duration.duration = "NaN"
    ELSE \E k \in 1..Len(node.notes) : HasNaNLeaf(node.notes[k])

\* C5: in what get_notes returns, no Note or Rest leaf, at top level or inside
\* a Chord, TiedNote or Triplet, carries the base duration NaN.
C5_NoNaNLeafInOutput ==
    pc = "done" => \A k \in 1..Len(notes) : ~HasNaNLeaf(notes[k])

\* the chords of the output, at top level or inside a triplet
RECURSIVE ChordsIn(_)
ChordsIn(nodes) ==
    IF nodes = <<>> THEN <<>>
    ELSE LET n == Head(nodes)
         IN  (IF n.kind = "Chord" THEN <<n>>
              ELSE IF n.kind = "Triplet" THEN ChordsIn(n.notes)
              ELSE <<>>) \o ChordsIn(Tail(nodes))

\* the pitch of a chord's child: a leaf's, or that of the leaves tied in it
RECURSIVE PitchOf(_)
PitchOf(node) == IF IsLeaf(node) THEN node.value ELSE PitchOf(node.notes[1])

Pitches(chord) == [k \in 1..Len(chord.notes) |-> PitchOf(chord.notes[k])]

\* the pitches sounding in a slot, each once, in the order they came
RECURSIVE DistinctPitches(_)
DistinctPitches(slot) ==
    IF slot = <<>> THEN <<>>
    ELSE LET before == DistinctPitches(Front(slot))
             pitch == Last(slot)[1]
         IN  IF pitch = REST \/ \E k \in 1..Len(before) : before[k] = pitch
             THEN before
             ELSE Append(before, pitch)

\* C10: the intervals of one quantized onset slot become one Chord with one
\* leaf per distinct pitch of the slot, in input order; a slot of one note
\* yields a bare leaf, never a Chord of one.  Stated of the Chords get_notes
\* returns: each has at least two leaves, and its leaves are the distinct
\* pitches of one slot of the grid, each once, in input order.
C10_SlotBecomesChord ==
    pc = "done" =>
        LET slots == flatten_beats(quantized_note_data)
            chords == ChordsIn(notes)
        IN  \A c \in 1..Len(chords) :
                /\ Len(chords[c].notes) >= 2
                /\ \E k \in 1..Len(slots) :
                       Pitches(chords[c]) = DistinctPitches(slots[k])

\* the nodes of the output in order, a Triplet replaced by its children
RECURSIVE OutputNodes(_)
OutputNodes(nodes) ==
    IF nodes = <<>> THEN <<>>
    ELSE (IF Head(nodes).kind = "Triplet" THEN Head(nodes).notes ELSE <<Head(nodes)>>)
            \o OutputNodes(Tail(nodes))

\* the slots of the grid that hold an onset, in order
RECURSIVE OccupiedSlots(_)
OccupiedSlots(slots) ==
    IF slots = <<>> THEN <<>>
    ELSE (IF Head(slots) # <<>> THEN <<Head(slots)>> ELSE <<>>)
            \o OccupiedSlots(Tail(slots))

\* the pitches a node sounds: none for a Rest
NodePitches(node) ==
    IF node.kind = "Rest" THEN {}
    ELSE IF node.kind = "Chord" THEN {PitchOf(node.notes[k]) : k \in 1..Len(node.notes)}
    ELSE {PitchOf(node)}

\* the pitches of the intervals of a slot, the rest sentinel left out
SlotPitches(slot) == {slot[k][1] : k \in 1..Len(slot)} \ {REST}

\* C20: no onset is lost by get_notes: every non-empty slot of the flattened
\* grid, the last one of the track and one pending when a triplet beat starts
\* included, gives exactly one node of the output, at top level or as a child
\* of a Triplet, and the nodes appear in slot order.
C20_EverySlotGivesOneNode ==
    pc = "done" =>
        LET nodes == OutputNodes(notes)
            slots == OccupiedSlots(flatten_beats(quantized_note_data))
        IN  /\ Len(nodes) = Len(slots)
            /\ \A k \in 1..Len(nodes) : NodePitches(nodes[k]) = SlotPitches(slots[k])

\* a Chord, TiedNote or Triplet with at least one child, all of them leaves
ShallowNode(node) ==
    IsLeaf(node) \/
        /\ Len(node.notes) > 0
        /\ \A k \in 1..Len(node.notes) : IsLeaf(node.notes[k])

\* C15: in what get_notes returns, every Chord, TiedNote and Triplet has a
\* non-empty child sequence and all its children are plain Note or Rest
\* leaves: no composite node holds another composite.
C15_CompositesHoldOnlyLeaves ==
    pc = "done" => \A k \in 1..Len(notes) : ShallowNode(notes[k])

\* the slots of a beat that hold an onset, counted from 1
OnsetSlots(beat) == {k \in 1..Len(beat.grid) : beat.grid[k] # <<>>}

\* the gaps from each onset of a beat to the next one, the last to the beat's end
OnsetGaps(beat) ==
    LET on == OnsetSlots(beat)
        following(k) == IF \E j \in on : j > k
                        THEN CHOOSE j \in on : j > k /\ \A i \in on : i > k => j <= i
                        ELSE Len(beat.grid) + 1
    IN  {following(k) - k : k \in on}

\* three distinct onset slots, gaps within 2 of each other, the longest gap
\* above a quarter of the slots
TripletCandidate(beat) ==
    LET gaps == OnsetGaps(beat)
        longest == CHOOSE g \in gaps : \A h \in gaps : h <= g
        shortest == CHOOSE g \in gaps : \A h \in gaps : g <= h
    IN  /\ Cardinality(OnsetSlots(beat)) = 3
        /\ longest - shortest <= 2
        /\ 4 * longest > Len(beat.grid)

\* C11: with the triplet scan, get_triplets reports a beat exactly when three
\* distinct slots of it hold an onset, the longest and the shortest gap between
\* onsets differ by at most 2 slots and the longest gap is above a quarter of
\* the beat's slots; the count of the first condition is that of the distinct
\* onset slots.
C11_TripletIffThreeSlotsEvenlySpread ==
    (pc = "done" /\ midi.triplet) =>
        \A k \in 1..Len(quantized_note_data) :
            (\E j \in 1..Len(possible_triplets) : possible_triplets[j] = k)
                <=> TripletCandidate(quantized_note_data[k])

\* every leaf of a node carries the duration d
RECURSIVE CarriesDuration(_, _)
CarriesDuration(node, d) ==
    IF IsLeaf(node) THEN node.duration = d
    ELSE \A k \in 1..Len(node.notes) : CarriesDuration(node.notes[k], d)

\* the onsets of a beat are those of a triplet: slots 0, k and 2k of 3k
TripletOnsets(beat) ==
    LET k == Len(beat.grid) \div 3
    IN  /\ Len(beat.grid) = 3 * k
        /\ OnsetSlots(beat) = {1, k + 1, 2 * k + 1}

\* C12: every Triplet of a track's output has exactly three children, all of
\* the duration beat_type_map(0.5, beat_type), and a beat whose only onsets are
\* at slots 0, k and 2k of its 3k slots is emitted as a Triplet.
C12_TripletHasThreeEqualChildren ==
    (pc = "done" /\ midi.triplet) =>
        /\ \A n \in 1..Len(notes) :
               notes[n].kind = "Triplet" =>
                   /\ Len(notes[n].notes) = 3
                   /\ CarriesDuration(notes[n],
                                       beat_type_map(BeatUnit \div 2, midi.beat_type))
        /\ \A b \in 1..Len(quantized_note_data) :
               TripletOnsets(quantized_note_data[b]) =>
                   \E j \in 1..Len(possible_triplets) : possible_triplets[j] = b

(***************************************************************************)
(* Properties of Midi::parse.                                              *)
(***************************************************************************)
\* the Tempo events of a track, in order
RECURSIVE TempoEvents(_)
TempoEvents(events) ==
    IF events = <<>> THEN <<>>
    ELSE (IF Head(events).kind = "Tempo" THEN <<Head(events)>> ELSE <<>>)
            \o TempoEvents(Tail(events))

\* 60,000,000 / microseconds per beat of the first tempo event, 0 without one
BeatsPerMinute(events) ==
    IF TempoEvents(events) = <<>> THEN 0
    ELSE 60000000 \div TempoEvents(events)[1].tempo

\* C13: the tempo Midi::new stores is 60,000,000 integer-divided by the
\* microseconds per beat of the first tempo event of track 0 (500,000 gives
\* 120), and 0 when track 0 has no tempo event; later tempo events do not
\* count.
C13_BpmIsSixtyMillionOverTempo ==
    parse_pc \in {"new", "returned"} =>
        parse_midi.bmp = BeatsPerMinute(smf.tracks[1])

\* track 0 of the file holds no time signature
NoTimeSignature ==
    /\ smf.tracks # <<>>
    /\ \A k \in 1..Len(smf.tracks[1]) : smf.tracks[1][k].kind # "TimeSignature"

\* C14: when track 0 holds no time signature the parse panics as soon as the
\* notes of the first track are to be built: no beat type is put in the place
\* of the missing one, no Track is built and no Midi is returned.
C14_NoTimeSignatureAborts ==
    [][NoTimeSignature =>
          /\ parse_pc = "new" => parse_pc' = "panic"
          /\ parse_midi'.time_signatures = <<>>
          /\ parse_midi'.tracks = <<>>
          /\ parse_ret' = NoMidi]_vars

\* the parse of a metrical file of two tracks, track 0 with a tempo and a note
\* but no time signature, has panicked in load_tracks
C14_Witness ==
    /\ NoTimeSignature
    /\ Len(smf.tracks) = 2
    /\ \E k \in 1..Len(smf.tracks[1]) : smf.tracks[1][k].kind = "NoteOn"
    /\ parse_midi.ticks_per_beat = 12
    /\ parse_pc = "panic"

(***************************************************************************)
(* Properties of the grid under every precision.                           *)
(***************************************************************************)
\* the slot quantize computes for an interval: its onset within its beat,
\* over the ticks of a beat, times the slots of a beat, rounded down
SlotIndex(note, m) ==
    LET ticks == scaled_ticks_per_beat(m.ticks_per_beat)
    IN  position_of(note.onset % ticks, ticks, divisions(m))

\* C21: for every base duration with every modifier as precision, with the
\* triplet scan on or off, a beat has at least one slot and the slot index of
\* every onset is below the number of slots, so quantize and the grid walk of
\* get_notes end without an index out of bounds or a remainder by zero.
C21_SlotIndexWithinGrid ==
    (pc \in {"done", "panic"} /\ midi.precision \in CanonicalPrecisions) =>
        /\ divisions_usize(midi) >= 1
        /\ \A k \in 1..Len(data) : SlotIndex(data[k], midi) < divisions_usize(midi)
        /\ pc = "done"

====
